---- MODULE Spec2Model ----
(***************************************************************************)
(* A model of the LinkedIn messaging script.                               *)
(*                                                                         *)
(*   Spec      the run of main() (src/src/index.js): initialize, login,    *)
(*             load the profiles, then the per-profile loop with its       *)
(*             ledger (logMessage) and its two counters.                   *)
(*   SpecClient  LinkedInClient.sendMessage (src/unnamed/part_000): its    *)
(*             ordered candidate lists and the steps between them, and the *)
(*             search-input lookup of navigateToProfileViaSalesNav.        *)
(*   SpecFmt   formatMessage (src/src/index.js), on strings of characters. *)
(*   SpecSession  the session operations of LinkedInClient                 *)
(*             (src/unnamed/part_000): login, checkLoginStatus,            *)
(*             navigateToProfile and navigateToProfileViaSalesNav, called  *)
(*             one after the other on one client.                          *)
(*                                                                         *)
(* The page is the environment: what a navigation, a query or a click      *)
(* gives is chosen with \E where the code awaits it.                       *)
(***************************************************************************)
EXTENDS Integers, Sequences, FiniteSets, TLC

VARIABLES
    \* ---- main() ----
    pc,              \* the position of main()
    cap,             \* config.messaging.maxMessages
    n,               \* profiles.length
    i,               \* the loop index (0-based, as in the code)
    messagesSent,    \* let messagesSent
    messagesFailed,  \* let messagesFailed
    fault,           \* error.message of the fault being handled, or "none"
    browserOpen,     \* client.browser /= null
    isLoggedIn,      \* client.isLoggedIn
    exitCode,        \* the argument of process.exit, -1 while running
    exitedAt,        \* the position of main() that called process.exit, "none" while running
    ledger,          \* the records of config.files.logsCsv, in file order
    logExists,       \* fs.pathExists(config.files.logsCsv)
    \* ---- history of the run (read by the properties only) ----
    started,         \* the indices of the profiles navigated to
    challengedAt,    \* the index of the first profile whose page held a challenge marker, -1 if none
    lastCall,        \* the outcome handed to logMessage last, NoCall before the first call
    lostWrites,      \* the number of logMessage calls of this run whose write failed
    trail,           \* what was done on the page of the profile being processed, in order
    slept,           \* the randomSleep awaited last: its bounds and the position of the call, NoSleep before the first
    intraUpper,      \* the largest upper bound of the randomSleep calls made inside the loop before an outcome
    \* ---- sendMessage() ----
    spc,             \* the position of sendMessage()
    surface,         \* what the page now shown gives to each candidate of the list tried next
    messageButtonClicked,
    foundInput,
    selector,        \* the index of the input selector kept, 0 for ''
    sendButtonClicked,
    sendUsed,        \* the index of the send selector clicked, 0 if none
    methodUsed,      \* the index i of messagingMethods[i] that returned true, -1 if none
    searchInput,     \* the index of the search selector whose handle is kept, 0 for null
    typed,           \* the message was typed into the page
    confirmation,    \* what the look for a confirmation gave, "none" before it
    strayClicks,     \* the messaging methods that clicked a button and returned false
    result,          \* what the operation returns: "none", "success" or "failure"
    \* ---- formatMessage() ----
    fpc,             \* "in" before the call, "out" after it
    template,        \* config.messaging.messageTemplate, a sequence of characters
    profile,         \* the profile: a sequence of <<key, value>> in Object.keys order
    message,         \* the value formatMessage returns
    \* ---- login(), checkLoginStatus(), navigateToProfile(), navigateToProfileViaSalesNav() ----
    cpc,             \* the position of the client in these operations, "ready" between two calls
    token,           \* config.linkedinCookies.li_at is set
    page,            \* the page shown: its address, whether it holds a logged-in marker, a challenge marker
    thisIsLoggedIn,  \* this.isLoggedIn
    cookies,         \* the number of li_at cookies in the browser (one per domain)
    caller,          \* who called login() last: "main", "salesnav", or "none"
    live,            \* what checkLoginStatus() returned last, FALSE before the first call
    loginResult,     \* what login() returned last, FALSE before the first return
    navResult,       \* the result of the navigation called last: "none", "success" or "failure"
    navError,        \* its error text
    calls,           \* the number of operations called on the client
    reLogins,        \* the number of login() calls made by navigateToProfileViaSalesNav
    \* ---- randomSleep() ----
    rpc,             \* "call" before the call, "timer" while the timer runs, "resolved" after it
    min,             \* the argument min
    max,             \* the argument max
    draw,            \* the value of Math.random(), as the numerator of draw / Draws
    delay,           \* const delay
    waited           \* the time the timer ran before it called resolve

mainVars == <<pc, cap, n, i, messagesSent, messagesFailed, fault, browserOpen,
              isLoggedIn, exitCode, exitedAt, ledger, logExists,
              started, challengedAt, lastCall, lostWrites, trail,
              slept, intraUpper>>
sendVars == <<spc, surface, messageButtonClicked, foundInput, selector,
              sendButtonClicked, sendUsed, methodUsed, searchInput, typed,
              confirmation, strayClicks, result>>
fmtVars == <<fpc, template, profile, message>>
sessionVars == <<cpc, token, page, thisIsLoggedIn, cookies, caller, live,
                 loginResult, navResult, navError, calls, reLogins>>
sleepVars == <<rpc, min, max, draw, delay, waited>>
vars == <<mainVars, sendVars, fmtVars, sessionVars, sleepVars>>

-----------------------------------------------------------------------------
(* Bounds of the model *)

MaxProfiles == 3
MaxCap == 2

\* The longest message template, in characters.
MaxTemplateLen == 6

\* Of the candidates of one list, at most this many are not plain misses on
\* a page (they match, or their evaluation throws).
MaxLive == 2

\* The number of operations called on one client.
MaxCalls == 3
\* The arguments of randomSleep are drawn from -MaxDelay..MaxDelay.
MaxDelay == 3

-----------------------------------------------------------------------------
(* The ledger: logMessage *)

\* The record logMessage writes. url stands for profile.url (the index of the
\* profile), ts for the timestamp (1: written by this run).
Record(k, status, error) ==
    [url |-> k, ts |-> 1, status |-> status, error |-> error]

\* The value of lastCall before logMessage is called.
NoCall == [url |-> -1, ts |-> 1, status |-> "none", error |-> ""]

\* Records an earlier run left in the file.
PriorRecords ==
    << [url |-> 0, ts |-> 0, status |-> "success", error |-> ""],
       [url |-> 1, ts |-> 0, status |-> "failed", error |-> "Could not find message button"] >>

\* The ledger files a run can start on: no file, or the file of an earlier run.
PriorLedgers == { << >>, PriorRecords }

\* A variant of WriteRecords that ignores append and always creates the file anew.
WriteRecordsOverwrite(file, append, rec) == <<rec>>

\* csv-writer's writeRecords: with append the record goes after the file's
\* content, without it the file is created anew with the header and the record.
WriteRecords(file, append, rec) ==
    IF append THEN Append(file, rec) ELSE <<rec>>

\* A variant of LogMessageFile whose write is not awaited and is lost.
LogMessageFileNotAwaited(file, exists, rec, writeOk) == file

\* logMessage(profile, status, error): append is fs.pathExists(logsCsv); a
\* fault of ensureDir or of the write is caught and only printed (writeOk = FALSE).
LogMessageFile(file, exists, rec, writeOk) ==
    IF writeOk THEN WriteRecords(file, exists, rec) ELSE file

LogMessage(k, status, error, writeOk) ==
    /\ ledger' = LogMessageFile(ledger, logExists, Record(k, status, error), writeOk)
    /\ logExists' = (logExists \/ writeOk)
    /\ lastCall' = Record(k, status, error)
    /\ lostWrites' = IF writeOk THEN lostWrites ELSE lostWrites + 1

-----------------------------------------------------------------------------
(* checkForCaptcha *)

\* LinkedInClient.checkForCaptcha: true iff the page holds one of the markers.
CheckForCaptcha(pageHasMarker) == pageHasMarker

-----------------------------------------------------------------------------
(* Idle values: a specification keeps the variables of the other operations
   at these. *)

\* No randomSleep was awaited yet.
NoSleep == [min |-> 0, max |-> 0, at |-> "none"]

\* await randomSleep(lo, hi) at the position pc of main()
\* (index.js:271-274): the bounds the delay is drawn within.
RandomSleepAt(lo, hi) == slept' = [min |-> lo, max |-> hi, at |-> pc]

\* A randomSleep of the loop body between two steps on one profile.
IntraSleep(lo, hi) ==
    /\ RandomSleepAt(lo, hi)
    /\ intraUpper' = IF hi > intraUpper THEN hi ELSE intraUpper

\* The randomSleep that follows the click of a step of the loop body.
StepSleep(step) ==
    CASE step = "button" -> IntraSleep(3000, 5000)
      [] step = "fill" -> IntraSleep(2000, 3000)
      [] step = "send" -> IntraSleep(3000, 5000)

SendIdle ==
    /\ spc = "idle"
    /\ surface = << >>
    /\ messageButtonClicked = FALSE
    /\ foundInput = FALSE
    /\ selector = 0
    /\ sendButtonClicked = FALSE
    /\ sendUsed = 0
    /\ methodUsed = -1
    /\ searchInput = 0
    /\ typed = FALSE
    /\ confirmation = "none"
    /\ strayClicks = {}
    /\ result = "none"

FmtIdle ==
    /\ fpc = "idle"
    /\ template = << >>
    /\ profile = << >>
    /\ message = << >>

MainIdle ==
    /\ pc = "idle"
    /\ cap = 0
    /\ n = 0
    /\ i = 0
    /\ messagesSent = 0
    /\ messagesFailed = 0
    /\ fault = "none"
    /\ browserOpen = TRUE
    /\ isLoggedIn = TRUE
    /\ exitCode = -1
    /\ exitedAt = "none"
    /\ ledger = << >>
    /\ logExists = FALSE
    /\ started = {}
    /\ challengedAt = -1
    /\ lastCall = NoCall
    /\ lostWrites = 0
    /\ trail = << >>
    /\ slept = NoSleep
    /\ intraUpper = 0

SleepIdle ==
    /\ rpc = "idle"
    /\ min = 0
    /\ max = 0
    /\ draw = 0
    /\ delay = 0
    /\ waited = 0

\* The page of a fresh tab.
BlankPage == [address |-> <<"blank">>, markers |-> FALSE, captcha |-> FALSE]

\* this.page = null: the client was closed. Every this.page.goto(...) then faults.
NoPage == [address |-> <<"null">>, markers |-> FALSE, captcha |-> FALSE]

SessionIdle ==
    /\ cpc = "idle"
    /\ token = TRUE
    /\ page = BlankPage
    /\ thisIsLoggedIn = FALSE
    /\ cookies = 0
    /\ caller = "none"
    /\ live = FALSE
    /\ loginResult = FALSE
    /\ navResult = "none"
    /\ navError = ""
    /\ calls = 0
    /\ reLogins = 0

-----------------------------------------------------------------------------
(* main() *)

\* The state when main() is entered: the client is not yet constructed, the
\* counters are declared 0, the ledger file is what earlier runs left.
MainInit ==
    /\ pc = "initialize"
    /\ cap \in 0..MaxCap
    /\ n = 0
    /\ i = 0
    /\ messagesSent = 0
    /\ messagesFailed = 0
    /\ fault = "none"
    /\ browserOpen = FALSE
    /\ isLoggedIn = FALSE
    /\ exitCode = -1
    /\ exitedAt = "none"
    /\ ledger \in PriorLedgers
    /\ logExists = (ledger /= << >>)
    /\ started = {}
    /\ challengedAt = -1
    /\ lastCall = NoCall
    /\ lostWrites = 0
    /\ trail = << >>
    /\ slept = NoSleep
    /\ intraUpper = 0

\* The text logged for a caught fault: `Error: ${error.message}`.
ErrorText(f) ==
    CASE f = "Navigation timeout" -> "Error: Navigation timeout"
      [] f = "Screenshot failed" -> "Error: Screenshot failed"
      [] f = "Evaluation failed" -> "Error: Evaluation failed"
      [] f = "Typing failed" -> "Error: Typing failed"
      [] OTHER -> "Error: "

\* LinkedInClient.close(): a no-op without a browser.
Close ==
    IF browserOpen
    THEN browserOpen' = FALSE /\ isLoggedIn' = FALSE
    ELSE UNCHANGED <<browserOpen, isLoggedIn>>

\* process.exit(code)
Exit(code) == pc' = "exit" /\ exitCode' = code /\ exitedAt' = pc

\* client.initialize() and the test of its result. Its catch returns false
\* whether the launch failed (no browser) or a later call did (browser open).
Initialize ==
    /\ pc = "initialize"
    /\ \E r \in {"ok", "launchFails", "setupFails"} :
         /\ browserOpen' = (r /= "launchFails")
         /\ IF r = "ok"
            THEN pc' = "login" /\ UNCHANGED <<exitCode, exitedAt>>
            ELSE Exit(1)
    /\ UNCHANGED <<cap, n, i, messagesSent, messagesFailed, fault, isLoggedIn,
                   ledger, logExists, started, challengedAt, lastCall, lostWrites>>
    /\ UNCHANGED trail
    /\ UNCHANGED <<slept, intraUpper>>
    /\ UNCHANGED <<sendVars, fmtVars, sessionVars, sleepVars>>

\* A variant of Login whose failure branch exits without client.close().
LoginFailureLeavesBrowser ==
    /\ pc = "login"
    /\ \E ok \in BOOLEAN :
         IF ok
         THEN /\ isLoggedIn' = TRUE
              /\ pc' = "load"
              /\ UNCHANGED <<browserOpen, exitCode, exitedAt>>
         ELSE Exit(1) /\ UNCHANGED <<browserOpen, isLoggedIn>>
    /\ UNCHANGED <<cap, n, i, messagesSent, messagesFailed, fault,
                   ledger, logExists, started, challengedAt, lastCall, lostWrites>>
    /\ UNCHANGED trail
    /\ UNCHANGED <<slept, intraUpper>>
    /\ UNCHANGED <<sendVars, fmtVars, sessionVars, sleepVars>>

\* client.login() and the test of its result.
Login ==
    /\ pc = "login"
    /\ \E ok \in BOOLEAN :
         IF ok
         THEN /\ isLoggedIn' = TRUE
              /\ pc' = "load"
              /\ UNCHANGED <<browserOpen, exitCode, exitedAt>>
         ELSE Close /\ Exit(1)
    /\ UNCHANGED <<cap, n, i, messagesSent, messagesFailed, fault,
                   ledger, logExists, started, challengedAt, lastCall, lostWrites>>
    /\ UNCHANGED trail
    /\ UNCHANGED <<slept, intraUpper>>
    /\ UNCHANGED <<sendVars, fmtVars, sessionVars, sleepVars>>

\* loadProfiles() and the test for an empty list. A stream error rejects the
\* promise: main() rejects and the handler of main().catch exits with 1.
LoadProfiles ==
    /\ pc = "load"
    /\ \/ \E k \in 0..MaxProfiles :
            /\ n' = k
            /\ IF k = 0
               THEN Close /\ Exit(1)
               ELSE pc' = "home" /\ UNCHANGED <<browserOpen, isLoggedIn, exitCode, exitedAt>>
       \/ /\ Exit(1)
          /\ UNCHANGED <<n, browserOpen, isLoggedIn>>
    /\ UNCHANGED <<cap, i, messagesSent, messagesFailed, fault,
                   ledger, logExists, started, challengedAt, lastCall, lostWrites>>
    /\ UNCHANGED trail
    /\ UNCHANGED <<slept, intraUpper>>
    /\ UNCHANGED <<sendVars, fmtVars, sessionVars, sleepVars>>

\* The visit of the Sales Navigator home: every fault of it is caught and printed.
Home ==
    /\ pc = "home"
    /\ pc' = "loop"
    /\ \/ RandomSleepAt(3000, 5000)
       \/ UNCHANGED slept
    /\ UNCHANGED intraUpper
    /\ UNCHANGED <<cap, n, i, messagesSent, messagesFailed, fault, browserOpen,
                   isLoggedIn, exitCode, exitedAt, ledger, logExists,
                   started, challengedAt, lastCall, lostWrites>>
    /\ UNCHANGED trail
    /\ UNCHANGED <<sendVars, fmtVars, sessionVars, sleepVars>>

\* A variant of LoopCondition with the cap compared by <=.
LoopConditionOffByOne == i < n /\ messagesSent <= cap

\* The condition of the for loop.
LoopCondition == i < n /\ messagesSent < cap

LoopTest ==
    /\ pc = "loop"
    /\ pc' = IF LoopCondition THEN "goto" ELSE "close"
    /\ UNCHANGED <<cap, n, i, messagesSent, messagesFailed, fault, browserOpen,
                   isLoggedIn, exitCode, exitedAt, ledger, logExists,
                   started, challengedAt, lastCall, lostWrites>>
    /\ UNCHANGED trail
    /\ UNCHANGED <<slept, intraUpper>>
    /\ UNCHANGED <<sendVars, fmtVars, sessionVars, sleepVars>>

\* A fault thrown inside the try block of the loop body.
Throw(f) == fault' = f /\ pc' = "catch"

\* page.goto(profile.url): the page that loads may hold a challenge marker;
\* a timeout throws.
Goto ==
    /\ pc = "goto"
    /\ started' = started \cup {i}
    /\ \/ \E c \in BOOLEAN :
            /\ challengedAt' = IF CheckForCaptcha(c) /\ challengedAt = -1
                               THEN i ELSE challengedAt
            /\ pc' = "shot1"
            /\ IntraSleep(3000, 5000)
            /\ UNCHANGED fault
       \/ /\ Throw("Navigation timeout")
          /\ UNCHANGED <<challengedAt, slept, intraUpper>>
    /\ UNCHANGED <<cap, n, i, messagesSent, messagesFailed, browserOpen,
                   isLoggedIn, exitCode, exitedAt, ledger, logExists, lastCall, lostWrites>>
    /\ trail' = << >>
    /\ UNCHANGED <<sendVars, fmtVars, sessionVars, sleepVars>>

\* A variant of Screenshot whose fault ends the run.
ScreenshotAborts(from, to) ==
    /\ pc = from
    /\ \/ pc' = to /\ UNCHANGED <<fault, exitCode, exitedAt>>
       \/ Exit(1) /\ UNCHANGED fault
    /\ UNCHANGED <<cap, n, i, messagesSent, messagesFailed, browserOpen,
                   isLoggedIn, ledger, logExists,
                   started, challengedAt, lastCall, lostWrites>>
    /\ UNCHANGED trail
    /\ UNCHANGED <<slept, intraUpper>>
    /\ UNCHANGED <<sendVars, fmtVars, sessionVars, sleepVars>>

\* page.screenshot(...) inside the try block: at `from`, continuing at `to`.
Screenshot(from, to) ==
    /\ pc = from
    /\ \/ pc' = to /\ UNCHANGED fault
       \/ Throw("Screenshot failed")
    /\ UNCHANGED <<cap, n, i, messagesSent, messagesFailed, browserOpen,
                   isLoggedIn, exitCode, exitedAt, ledger, logExists,
                   started, challengedAt, lastCall, lostWrites>>
    /\ UNCHANGED trail
    /\ UNCHANGED <<slept, intraUpper>>
    /\ UNCHANGED <<sendVars, fmtVars, sessionVars, sleepVars>>

\* A page.evaluate(...) of the loop body that looks for an element and acts on
\* it (step): true goes to `found`, false to `missing`, a fault is thrown.
Evaluate(from, found, missing, step) ==
    /\ pc = from
    /\ \/ /\ pc' = found
          /\ trail' = Append(trail, step)
          /\ StepSleep(step)
          /\ UNCHANGED fault
       \/ pc' = missing /\ UNCHANGED <<fault, trail, slept, intraUpper>>
       \/ Throw("Evaluation failed") /\ UNCHANGED <<trail, slept, intraUpper>>
    /\ UNCHANGED <<cap, n, i, messagesSent, messagesFailed, browserOpen,
                   isLoggedIn, exitCode, exitedAt, ledger, logExists,
                   started, challengedAt, lastCall, lostWrites>>
    /\ UNCHANGED <<sendVars, fmtVars, sessionVars, sleepVars>>

ProfileScreenshot == Screenshot("shot1", "msgBtn")
\* The click on the first button with "message" in its text.
FindMessageButton == Evaluate("msgBtn", "shot2", "logNoBtn", "button")
DialogScreenshot == Screenshot("shot2", "input")
\* A variant of FillInput that goes on typing without an input.
FillInputAlwaysTypes == Evaluate("input", "type", "type", "fill")

\* The first input-like element gets the message as its content and the focus.
FillInput == Evaluate("input", "type", "logNoInput", "fill")

\* page.keyboard.type(message)
KeyboardType ==
    /\ pc = "type"
    /\ \/ /\ pc' = "shot3"
          /\ trail' = Append(trail, "type")
          /\ IntraSleep(1000, 2000)
          /\ UNCHANGED fault
       \/ Throw("Typing failed") /\ UNCHANGED <<trail, slept, intraUpper>>
    /\ UNCHANGED <<cap, n, i, messagesSent, messagesFailed, browserOpen,
                   isLoggedIn, exitCode, exitedAt, ledger, logExists,
                   started, challengedAt, lastCall, lostWrites>>
    /\ UNCHANGED <<sendVars, fmtVars, sessionVars, sleepVars>>

TypedScreenshot == Screenshot("shot3", "send")
\* The click on the first button with "send" in its text.
ClickSend == Evaluate("send", "shot4", "logNoSend", "send")
AfterSendScreenshot == Screenshot("shot4", "logSuccess")

\* A variant of LogSuccess that increments both counters.
LogSuccessCountsBoth ==
    /\ pc = "logSuccess"
    /\ \E writeOk \in BOOLEAN : LogMessage(i, "success", "", writeOk)
    /\ messagesSent' = messagesSent + 1
    /\ messagesFailed' = messagesFailed + 1
    /\ pc' = "pause"
    /\ UNCHANGED <<cap, n, i, fault, browserOpen, isLoggedIn,
                   exitCode, exitedAt, started, challengedAt>>
    /\ UNCHANGED trail
    /\ UNCHANGED <<slept, intraUpper>>
    /\ UNCHANGED <<sendVars, fmtVars, sessionVars, sleepVars>>

\* A variant of LogSuccess that logs the success and forgets messagesSent++.
LogSuccessNoCount ==
    /\ pc = "logSuccess"
    /\ \E writeOk \in BOOLEAN : LogMessage(i, "success", "", writeOk)
    /\ pc' = "pause"
    /\ UNCHANGED <<cap, n, i, messagesSent, messagesFailed, fault, browserOpen,
                   isLoggedIn, exitCode, exitedAt, started, challengedAt>>
    /\ UNCHANGED trail
    /\ UNCHANGED <<slept, intraUpper>>
    /\ UNCHANGED <<sendVars, fmtVars, sessionVars, sleepVars>>

\* logMessage(profile, 'success'); messagesSent++
LogSuccess ==
    /\ pc = "logSuccess"
    /\ \E writeOk \in BOOLEAN : LogMessage(i, "success", "", writeOk)
    /\ messagesSent' = messagesSent + 1
    /\ pc' = "pause"
    /\ UNCHANGED <<cap, n, i, messagesFailed, fault, browserOpen, isLoggedIn,
                   exitCode, exitedAt, started, challengedAt>>
    /\ UNCHANGED trail
    /\ UNCHANGED <<slept, intraUpper>>
    /\ UNCHANGED <<sendVars, fmtVars, sessionVars, sleepVars>>

\* A variant of LogNotFound that logs and forgets messagesFailed++.
LogNotFoundNoCount(from, reason) ==
    /\ pc = from
    /\ \E writeOk \in BOOLEAN : LogMessage(i, "failed", reason, writeOk)
    /\ pc' = "pause"
    /\ UNCHANGED <<cap, n, i, messagesSent, messagesFailed, fault, browserOpen,
                   isLoggedIn, exitCode, exitedAt, started, challengedAt>>
    /\ UNCHANGED trail
    /\ UNCHANGED <<slept, intraUpper>>
    /\ UNCHANGED <<sendVars, fmtVars, sessionVars, sleepVars>>

\* logMessage(profile, 'failed', reason); messagesFailed++ of a not-found branch.
LogNotFound(from, reason) ==
    /\ pc = from
    /\ \E writeOk \in BOOLEAN : LogMessage(i, "failed", reason, writeOk)
    /\ messagesFailed' = messagesFailed + 1
    /\ pc' = "pause"
    /\ UNCHANGED <<cap, n, i, messagesSent, fault, browserOpen, isLoggedIn,
                   exitCode, exitedAt, started, challengedAt>>
    /\ UNCHANGED trail
    /\ UNCHANGED <<slept, intraUpper>>
    /\ UNCHANGED <<sendVars, fmtVars, sessionVars, sleepVars>>

\* A variant of LogNoSendButton that, having logged, throws into the catch block.
LogNoSendButtonThenThrows ==
    /\ pc = "logNoSend"
    /\ \E writeOk \in BOOLEAN :
         LogMessage(i, "failed", "Could not find send button", writeOk)
    /\ messagesFailed' = messagesFailed + 1
    /\ Throw("Evaluation failed")
    /\ UNCHANGED <<cap, n, i, messagesSent, browserOpen, isLoggedIn,
                   exitCode, exitedAt, started, challengedAt>>
    /\ UNCHANGED trail
    /\ UNCHANGED <<slept, intraUpper>>
    /\ UNCHANGED <<sendVars, fmtVars, sessionVars, sleepVars>>

\* A variant of LogNoInput with the reason of another branch.
LogNoInputWrongReason == LogNotFound("logNoInput", "Could not find message button")

LogNoSendButton == LogNotFound("logNoSend", "Could not find send button")
LogNoInput == LogNotFound("logNoInput", "Could not find message input")
LogNoMessageButton == LogNotFound("logNoBtn", "Could not find message button")

\* A variant of Pause whose delay is the one of a step on the page.
PauseShort ==
    /\ pc = "pause"
    /\ i' = i + 1
    /\ pc' = "loop"
    /\ UNCHANGED <<cap, n, messagesSent, messagesFailed, fault, browserOpen,
                   isLoggedIn, exitCode, exitedAt, ledger, logExists,
                   started, challengedAt, lastCall, lostWrites>>
    /\ trail' = << >>
    /\ RandomSleepAt(2000, 3000)
    /\ UNCHANGED intraUpper
    /\ UNCHANGED <<sendVars, fmtVars, sessionVars, sleepVars>>

\* A variant of Pause without the i++ of the for loop.
PauseNoIncrement ==
    /\ pc = "pause"
    /\ pc' = "loop"
    /\ UNCHANGED <<cap, n, i, messagesSent, messagesFailed, fault, browserOpen,
                   isLoggedIn, exitCode, exitedAt, ledger, logExists,
                   started, challengedAt, lastCall, lostWrites>>
    /\ trail' = << >>
    /\ RandomSleepAt(8000, 12000)
    /\ UNCHANGED intraUpper
    /\ UNCHANGED <<sendVars, fmtVars, sessionVars, sleepVars>>

\* The delay between profiles, then i++ of the for loop.
Pause ==
    /\ pc = "pause"
    /\ i' = i + 1
    /\ pc' = "loop"
    /\ UNCHANGED <<cap, n, messagesSent, messagesFailed, fault, browserOpen,
                   isLoggedIn, exitCode, exitedAt, ledger, logExists,
                   started, challengedAt, lastCall, lostWrites>>
    /\ trail' = << >>
    /\ RandomSleepAt(8000, 12000)
    /\ UNCHANGED intraUpper
    /\ UNCHANGED <<sendVars, fmtVars, sessionVars, sleepVars>>

\* A variant of Catch that logs a fixed text instead of error.message.
CatchLosesMessage ==
    /\ pc = "catch"
    /\ \E writeOk \in BOOLEAN : LogMessage(i, "failed", "Error: ", writeOk)
    /\ messagesFailed' = messagesFailed + 1
    /\ fault' = "none"
    /\ i' = i + 1
    /\ pc' = "loop"
    /\ UNCHANGED <<cap, n, messagesSent, browserOpen, isLoggedIn,
                   exitCode, exitedAt, started, challengedAt>>
    /\ trail' = << >>
    /\ RandomSleepAt(5000, 8000)
    /\ UNCHANGED intraUpper
    /\ UNCHANGED <<sendVars, fmtVars, sessionVars, sleepVars>>

\* The catch block of the loop body, then i++ of the for loop.
Catch ==
    /\ pc = "catch"
    /\ \E writeOk \in BOOLEAN : LogMessage(i, "failed", ErrorText(fault), writeOk)
    /\ messagesFailed' = messagesFailed + 1
    /\ fault' = "none"
    /\ i' = i + 1
    /\ pc' = "loop"
    /\ UNCHANGED <<cap, n, messagesSent, browserOpen, isLoggedIn,
                   exitCode, exitedAt, started, challengedAt>>
    /\ trail' = << >>
    /\ RandomSleepAt(5000, 8000)
    /\ UNCHANGED intraUpper
    /\ UNCHANGED <<sendVars, fmtVars, sessionVars, sleepVars>>

\* client.close(), the summary and process.exit(0). A browser.close() that
\* rejects makes main() reject: the handler of main().catch exits with 1.
CloseAndExit ==
    /\ pc = "close"
    /\ \/ Close /\ Exit(0)
       \/ Exit(1) /\ UNCHANGED <<browserOpen, isLoggedIn>>
    /\ UNCHANGED <<cap, n, i, messagesSent, messagesFailed, fault,
                   ledger, logExists, started, challengedAt, lastCall, lostWrites>>
    /\ UNCHANGED trail
    /\ UNCHANGED <<slept, intraUpper>>
    /\ UNCHANGED <<sendVars, fmtVars, sessionVars, sleepVars>>

\* The content of the message input after the steps of t on a field that
\* held `initial`: the fill sets it to the message, the keyboard adds the
\* message to the field that has the focus.
RECURSIVE FieldContent(_, _)
FieldContent(initial, t) ==
    IF t = << >> THEN initial
    ELSE LET before == FieldContent(initial, SubSeq(t, 1, Len(t) - 1))
             step == t[Len(t)]
         IN  CASE step = "fill" -> <<"message">>
               [] step = "type" -> before \o <<"message">>
               [] OTHER -> before

MainNext ==
    \/ Initialize
    \/ Login
    \/ LoadProfiles
    \/ Home
    \/ LoopTest
    \/ Goto
    \/ ProfileScreenshot
    \/ FindMessageButton
    \/ DialogScreenshot
    \/ FillInput
    \/ KeyboardType
    \/ TypedScreenshot
    \/ ClickSend
    \/ AfterSendScreenshot
    \/ LogSuccess
    \/ LogNoSendButton
    \/ LogNoInput
    \/ LogNoMessageButton
    \/ Pause
    \/ Catch
    \/ CloseAndExit

Init == MainInit /\ SendIdle /\ FmtIdle /\ SessionIdle /\ SleepIdle

Next == MainNext

Spec == Init /\ [][Next]_vars

-----------------------------------------------------------------------------
(* LinkedInClient: the ordered candidate lists *)

\* What the page gives to one candidate when it is evaluated: an element
\* ("match"), none ("nomatch"), or a fault of the query or of the click that
\* follows it ("throw").
Outcomes == {"match", "nomatch", "throw"}

\* The pages a list of candidates (indexed by dom) is tried on: what the page
\* gives to each candidate.
Surfaces(dom) ==
    { f \in [dom -> Outcomes] :
        Cardinality({ k \in dom : f[k] /= "nomatch" }) <= MaxLive }

NumMessagingMethods == 5
NumInputSelectors == 10
NumSendSelectors == 4
NumSearchSelectors == 5

\* A variant of InputLoop without the break: the last matching selector is kept.
RECURSIVE InputLoopNoBreak(_, _)
InputLoopNoBreak(surf, k) ==
    IF k > NumInputSelectors
    THEN [found |-> FALSE, selector |-> 0]
    ELSE LET rest == InputLoopNoBreak(surf, k + 1)
         IN  IF rest.found THEN rest
             ELSE IF surf[k] = "match"
                  THEN [found |-> TRUE, selector |-> k]
                  ELSE rest

\* for (const inputSelector of possibleInputSelectors), from the k-th on: the
\* first selector for which page.$ gives an element is kept and the loop
\* breaks; a fault of page.$ is caught inside the loop.
RECURSIVE InputLoop(_, _)
InputLoop(surf, k) ==
    IF k > NumInputSelectors
    THEN [found |-> FALSE, selector |-> 0]
    ELSE IF surf[k] = "match"
         THEN [found |-> TRUE, selector |-> k]
         ELSE InputLoop(surf, k + 1)

\* for (const sendSelector of possibleSendSelectors), from the k-th on: the
\* first selector for which page.$ gives an element and page.click succeeds
\* is used; a fault of either is caught inside the loop.
RECURSIVE SendLoop(_, _)
SendLoop(surf, k) ==
    IF k > NumSendSelectors
    THEN [clicked |-> FALSE, selector |-> 0]
    ELSE IF surf[k] = "match"
         THEN [clicked |-> TRUE, selector |-> k]
         ELSE SendLoop(surf, k + 1)

\* for (let i = 0; i < messagingMethods.length; i++), from i = k on: the first
\* method that returns true ends the loop; the call is not inside a try, so a
\* fault of a method leaves the loop and sendMessage's try block.
RECURSIVE MethodLoop(_, _)
MethodLoop(surf, k) ==
    IF k >= NumMessagingMethods
    THEN [clicked |-> FALSE, method |-> -1, threw |-> FALSE]
    ELSE CASE surf[k] = "match" -> [clicked |-> TRUE, method |-> k, threw |-> FALSE]
           [] surf[k] = "throw" -> [clicked |-> FALSE, method |-> -1, threw |-> TRUE]
           [] OTHER -> MethodLoop(surf, k + 1)

\* for (const selector of searchSelectors), from the k-th on: the first
\* selector for which page.$ gives a handle ends the loop; page.$ is not
\* inside a try, so its fault leaves navigateToProfileViaSalesNav's try block.
RECURSIVE SearchLoop(_, _)
SearchLoop(surf, k) ==
    IF k > NumSearchSelectors
    THEN [input |-> 0, threw |-> FALSE]
    ELSE CASE surf[k] = "match" -> [input |-> k, threw |-> FALSE]
           [] surf[k] = "throw" -> [input |-> 0, threw |-> TRUE]
           [] OTHER -> SearchLoop(surf, k + 1)

\* The messaging methods that click a first button (More, Connect) before
\* they look for the message option: methods 2 and 3 of the list.
TwoStepMethods == {2, 3}

\* The two-step methods, from i = k on, that the loop ran and that returned
\* false: each of them has clicked its first button if the page had one.
RECURSIVE ReturnedFalse(_, _)
ReturnedFalse(surf, k) ==
    IF k >= NumMessagingMethods \/ surf[k] /= "nomatch"
    THEN {}
    ELSE (IF k \in TwoStepMethods THEN {k} ELSE {}) \cup ReturnedFalse(surf, k + 1)

MethodSurfaces == Surfaces(0..(NumMessagingMethods - 1))
InputSurfaces == Surfaces(1..NumInputSelectors)
SendSurfaces == Surfaces(1..NumSendSelectors)
SearchSurfaces == Surfaces(1..NumSearchSelectors)

-----------------------------------------------------------------------------
(* LinkedInClient.sendMessage *)

\* sendMessage is entered, or the search page of navigateToProfileViaSalesNav
\* is shown; nothing is resolved yet.
ClientInit ==
    /\ spc = "start"
    /\ surface = << >>
    /\ messageButtonClicked = FALSE
    /\ foundInput = FALSE
    /\ selector = 0
    /\ sendButtonClicked = FALSE
    /\ sendUsed = 0
    /\ methodUsed = -1
    /\ searchInput = 0
    /\ typed = FALSE
    /\ confirmation = "none"
    /\ strayClicks = {}
    /\ result = "none"

\* The catch of sendMessage (and of navigateToProfileViaSalesNav): the fault
\* becomes { success: false, error }.
Fail == spc' = "done" /\ result' = "failure"

\* The start of sendMessage: the screenshot is in its own try, page.url() is
\* not. The profile page gives each messaging method its outcome.
BeginSend ==
    /\ spc = "start"
    /\ \/ /\ surface' \in MethodSurfaces
          /\ spc' = "methods"
          /\ UNCHANGED result
       \/ Fail /\ UNCHANGED surface
    /\ UNCHANGED <<messageButtonClicked, foundInput, selector, sendButtonClicked,
                   sendUsed, methodUsed, searchInput, typed>>
    /\ UNCHANGED confirmation
    /\ UNCHANGED strayClicks
    /\ UNCHANGED <<mainVars, fmtVars, sessionVars, sleepVars>>

\* The loop over messagingMethods.
TryMethods ==
    /\ spc = "methods"
    /\ LET r == MethodLoop(surface, 0)
       IN  IF r.threw
           THEN Fail /\ UNCHANGED <<messageButtonClicked, methodUsed>>
           ELSE /\ messageButtonClicked' = r.clicked
                /\ methodUsed' = r.method
                /\ spc' = "afterMethods"
                /\ UNCHANGED result
    /\ strayClicks' \in SUBSET ReturnedFalse(surface, 0)
    /\ UNCHANGED <<surface, foundInput, selector, sendButtonClicked, sendUsed,
                   searchInput, typed>>
    /\ UNCHANGED confirmation
    /\ UNCHANGED <<mainVars, fmtVars, sessionVars, sleepVars>>

\* if (!messageButtonClicked) throw; else wait for the composer: the page now
\* gives each input selector its outcome.
AfterMethods ==
    /\ spc = "afterMethods"
    /\ IF messageButtonClicked
       THEN /\ surface' \in InputSurfaces
            /\ spc' = "inputs"
            /\ UNCHANGED result
       ELSE Fail /\ UNCHANGED surface
    /\ UNCHANGED <<messageButtonClicked, foundInput, selector, sendButtonClicked,
                   sendUsed, methodUsed, searchInput, typed>>
    /\ UNCHANGED confirmation
    /\ UNCHANGED strayClicks
    /\ UNCHANGED <<mainVars, fmtVars, sessionVars, sleepVars>>

\* The loop over possibleInputSelectors.
FindInput ==
    /\ spc = "inputs"
    /\ LET r == InputLoop(surface, 1)
       IN  /\ foundInput' = r.found
           /\ selector' = r.selector
           /\ spc' = IF r.found THEN "type" ELSE "lastResort"
    /\ UNCHANGED <<surface, messageButtonClicked, sendButtonClicked, sendUsed,
                   methodUsed, searchInput, typed, result>>
    /\ UNCHANGED confirmation
    /\ UNCHANGED strayClicks
    /\ UNCHANGED <<mainVars, fmtVars, sessionVars, sleepVars>>

\* if (!foundInput): the last resort inside its own try. A visible input-like
\* element is looked for; if there is one the message is typed with the
\* keyboard and a button with "send" in its text is clicked, which returns
\* { success: true }. Every other way ends in the throw after the try.
LastResort ==
    /\ spc = "lastResort"
    /\ \/ Fail /\ UNCHANGED <<typed, sendButtonClicked>>
       \/ typed' = TRUE /\ Fail /\ UNCHANGED sendButtonClicked
       \/ /\ typed' = TRUE
          /\ sendButtonClicked' = TRUE
          /\ spc' = "done"
          /\ result' = "success"
    /\ UNCHANGED <<surface, messageButtonClicked, foundInput, selector,
                   sendUsed, methodUsed, searchInput>>
    /\ UNCHANGED confirmation
    /\ UNCHANGED strayClicks
    /\ UNCHANGED <<mainVars, fmtVars, sessionVars, sleepVars>>

\* The input is cleared and page.type(selector, message) types the message;
\* neither is inside a try of its own. The page then gives each send
\* selector its outcome.
TypeMessage ==
    /\ spc = "type"
    /\ \/ /\ typed' = TRUE
          /\ surface' \in SendSurfaces
          /\ spc' = "sendSelectors"
          /\ UNCHANGED result
       \/ Fail /\ UNCHANGED <<typed, surface>>
       \/ typed' = TRUE /\ Fail /\ UNCHANGED surface
    /\ UNCHANGED <<messageButtonClicked, foundInput, selector, sendButtonClicked,
                   sendUsed, methodUsed, searchInput>>
    /\ UNCHANGED confirmation
    /\ UNCHANGED strayClicks
    /\ UNCHANGED <<mainVars, fmtVars, sessionVars, sleepVars>>

\* The loop over possibleSendSelectors.
TrySendSelectors ==
    /\ spc = "sendSelectors"
    /\ LET r == SendLoop(surface, 1)
       IN  /\ sendButtonClicked' = r.clicked
           /\ sendUsed' = r.selector
           /\ spc' = IF r.clicked THEN "confirm" ELSE "sendFallback"
    /\ UNCHANGED <<surface, messageButtonClicked, foundInput, selector,
                   methodUsed, searchInput, typed, result>>
    /\ UNCHANGED confirmation
    /\ UNCHANGED strayClicks
    /\ UNCHANGED <<mainVars, fmtVars, sessionVars, sleepVars>>

\* The fallback over page.$$('button'): page.$$ is not inside a try, each
\* button's text and click are.
SendFallback ==
    /\ spc = "sendFallback"
    /\ \/ sendButtonClicked' = TRUE /\ spc' = "confirm" /\ UNCHANGED result
       \/ spc' = "sendDialog" /\ UNCHANGED <<sendButtonClicked, result>>
       \/ Fail /\ UNCHANGED sendButtonClicked
    /\ UNCHANGED <<surface, messageButtonClicked, foundInput, selector, sendUsed,
                   methodUsed, searchInput, typed>>
    /\ UNCHANGED confirmation
    /\ UNCHANGED strayClicks
    /\ UNCHANGED <<mainVars, fmtVars, sessionVars, sleepVars>>

\* The last button of a dialog, inside a try; then if (!sendButtonClicked) throw.
SendDialog ==
    /\ spc = "sendDialog"
    /\ \/ sendButtonClicked' = TRUE /\ spc' = "confirm" /\ UNCHANGED result
       \/ Fail /\ UNCHANGED sendButtonClicked
    /\ UNCHANGED <<surface, messageButtonClicked, foundInput, selector, sendUsed,
                   methodUsed, searchInput, typed>>
    /\ UNCHANGED confirmation
    /\ UNCHANGED strayClicks
    /\ UNCHANGED <<mainVars, fmtVars, sessionVars, sleepVars>>

\* A variant of ConfirmResult that returns a failure without a confirmation.
ConfirmResultStrict(c) == IF c = "match" THEN "success" ELSE "failure"

\* What sendMessage returns after the look for a confirmation gave c:
\* { success: true }, whatever c is.
ConfirmResult(c) == "success"

\* The wait, the screenshot and the look for a confirmation (its elements are
\* there, are not, or page.evaluate throws), each inside a try; then the return.
Confirm ==
    /\ spc = "confirm"
    /\ \E c \in Outcomes :
         /\ confirmation' = c
         /\ result' = ConfirmResult(c)
    /\ spc' = "done"
    /\ UNCHANGED <<surface, messageButtonClicked, foundInput, selector,
                   sendButtonClicked, sendUsed, methodUsed, searchInput, typed>>
    /\ UNCHANGED strayClicks
    /\ UNCHANGED <<mainVars, fmtVars, sessionVars, sleepVars>>

-----------------------------------------------------------------------------
(* LinkedInClient.navigateToProfileViaSalesNav: the search input *)

\* The search page is shown: it gives each search selector its outcome.
ShowSearchPage ==
    /\ spc = "start"
    /\ surface' \in SearchSurfaces
    /\ spc' = "search"
    /\ UNCHANGED <<messageButtonClicked, foundInput, selector, sendButtonClicked,
                   sendUsed, methodUsed, searchInput, typed, result>>
    /\ UNCHANGED confirmation
    /\ UNCHANGED strayClicks
    /\ UNCHANGED <<mainVars, fmtVars, sessionVars, sleepVars>>

\* The loop over searchSelectors.
FindSearchInput ==
    /\ spc = "search"
    /\ LET r == SearchLoop(surface, 1)
       IN  IF r.threw
           THEN Fail /\ UNCHANGED searchInput
           ELSE /\ searchInput' = r.input
                /\ spc' = "afterSearch"
                /\ UNCHANGED result
    /\ UNCHANGED <<surface, messageButtonClicked, foundInput, selector,
                   sendButtonClicked, sendUsed, methodUsed, typed>>
    /\ UNCHANGED confirmation
    /\ UNCHANGED strayClicks
    /\ UNCHANGED <<mainVars, fmtVars, sessionVars, sleepVars>>

ClientNext ==
    \/ BeginSend
    \/ TryMethods
    \/ AfterMethods
    \/ FindInput
    \/ LastResort
    \/ TypeMessage
    \/ TrySendSelectors
    \/ SendFallback
    \/ SendDialog
    \/ Confirm
    \/ ShowSearchPage
    \/ FindSearchInput

InitClient == MainIdle /\ ClientInit /\ FmtIdle /\ SessionIdle /\ SleepIdle

NextClient == ClientNext

SpecClient == InitClient /\ [][NextClient]_vars

-----------------------------------------------------------------------------
(* formatMessage *)

\* Strings are sequences of characters. The characters of a template:
TemplateChars == {"{", "}", "a"}

\* The templates config.messaging.messageTemplate is drawn from.
Templates == UNION { [1..k -> TemplateChars] : k \in 0..MaxTemplateLen }

\* The attribute names (CSV column names) and values a profile is drawn from.
\* Names hold letters and "."; values hold no "`" and no "'".
Keys == { <<"a">>, <<"b">>, <<".">> }
Values == { << >>, <<"a">>, <<"{", "{", "b", "}", "}">>, <<"$", "&">> }

\* A profile is its attributes in Object.keys order, no name twice.
Attributes == Keys \X Values
Profiles ==
    { << >> } \cup { <<p>> : p \in Attributes }
              \cup { pq \in Attributes \X Attributes : pq[1][1] /= pq[2][1] }

\* The source of new RegExp(`{{${key}}}`, 'g'). With a name of letters and
\* "." every "{" and "}" of it is a literal (no quantifier is formed).
RegExpSource(key) == <<"{", "{">> \o key \o <<"}", "}">>

\* One pattern character against one character: "." matches any character
\* (no line terminator is among the characters), any other only itself.
AtomMatches(atom, c) == IF atom = "." THEN TRUE ELSE atom = c

\* The pattern matches the string at position pos.
MatchesAt(pat, str, pos) ==
    /\ pos + Len(pat) - 1 <= Len(str)
    /\ \A j \in 1..Len(pat) : AtomMatches(pat[j], str[pos + j - 1])

\* The replacement text of String.prototype.replace for one match, from
\* position p of the replacement string: "$$" gives "$", "$&" the matched
\* text; the pattern has no group, so every other "$" is literal.
RECURSIVE Expand(_, _, _)
Expand(repl, matched, p) ==
    IF p > Len(repl) THEN << >>
    ELSE IF repl[p] = "$" /\ p < Len(repl) /\ repl[p + 1] = "$"
         THEN <<"$">> \o Expand(repl, matched, p + 2)
    ELSE IF repl[p] = "$" /\ p < Len(repl) /\ repl[p + 1] = "&"
         THEN matched \o Expand(repl, matched, p + 2)
    ELSE <<repl[p]>> \o Expand(repl, matched, p + 1)

\* str.replace(pattern with flag g, repl), from position pos of str: the
\* matches are taken left to right and do not overlap.
RECURSIVE ReplaceAll(_, _, _, _)
ReplaceAll(str, pat, repl, pos) ==
    IF pos > Len(str) THEN << >>
    ELSE IF MatchesAt(pat, str, pos)
         THEN Expand(repl, SubSeq(str, pos, pos + Len(pat) - 1), 1)
                  \o ReplaceAll(str, pat, repl, pos + Len(pat))
         ELSE <<str[pos]>> \o ReplaceAll(str, pat, repl, pos + 1)

\* Object.keys(profile).forEach(key => message = message.replace(...)), from
\* the k-th key on; profile[key] || '' is the value itself for a string.
RECURSIVE FormatLoop(_, _, _)
FormatLoop(msg, prof, k) ==
    IF k > Len(prof) THEN msg
    ELSE FormatLoop(ReplaceAll(msg, RegExpSource(prof[k][1]), prof[k][2], 1),
                    prof, k + 1)

\* formatMessage(profile), with the template of the configuration.
FormatMessage(tmpl, prof) == FormatLoop(tmpl, prof, 1)

FmtInit ==
    /\ fpc = "in"
    /\ template \in Templates
    /\ profile \in Profiles
    /\ message = << >>

\* A variant of ProfileAfter that deletes the attributes it has used.
ProfileAfterConsumed(prof) == << >>

\* The profile object after formatMessage(profile): the callback of forEach
\* reads profile[key] and assigns to the local `message` only.
ProfileAfter(prof) == prof

\* The call of formatMessage.
Format ==
    /\ fpc = "in"
    /\ message' = FormatMessage(template, profile)
    /\ profile' = ProfileAfter(profile)
    /\ fpc' = "out"
    /\ UNCHANGED template
    /\ UNCHANGED <<mainVars, sendVars, sessionVars, sleepVars>>

InitFmt == MainIdle /\ SendIdle /\ FmtInit /\ SessionIdle /\ SleepIdle

NextFmt == Format

SpecFmt == InitFmt /\ [][NextFmt]_vars

-----------------------------------------------------------------------------
(* LinkedInClient: the session operations *)

\* The addresses a navigation can end on, as the texts between the "/" of
\* the path: a page of the site, the login form, a login form of another
\* path, a checkpoint.
Addresses ==
    { <<"sales", "home">>, <<"login">>, <<"uas", "login-submit">>,
      <<"checkpoint", "challenge">> }

\* The pages a navigation or a reload can show.
Pages == [address : Addresses, markers : BOOLEAN, captcha : BOOLEAN]

\* The path text seg begins with word.
StartsWith(seg, word) ==
    \/ seg = word
    \/ seg = "login-submit" /\ word = "login"

\* currentUrl.includes('/' + word)
Includes(url, word) == \E k \in 1..Len(url) : StartsWith(url[k], word)

\* currentUrl.includes('/login') || currentUrl.includes('/checkpoint')
NotAuthenticatedAddress(url) == Includes(url, "login") \/ Includes(url, "checkpoint")

\* Where a fault can arise inside checkLoginStatus.
CheckFaults == {"none", "url", "evaluate"}

\* A variant of CheckLoginStatus that looks for the markers before the address.
CheckLoginStatusMarkersFirst(url, markers, f) ==
    IF f = "url" \/ f = "evaluate" THEN FALSE
    ELSE IF markers THEN TRUE
    ELSE FALSE

\* checkLoginStatus(): the address first, then the logged-in markers; the
\* catch turns every fault into false.
CheckLoginStatus(url, markers, f) ==
    IF f = "url" THEN FALSE
    ELSE IF NotAuthenticatedAddress(url) THEN FALSE
    ELSE IF f = "evaluate" THEN FALSE
    ELSE markers

\* A client after its constructor and initialize().
SessionInit ==
    /\ cpc = "ready"
    /\ token \in BOOLEAN
    /\ page = BlankPage
    /\ thisIsLoggedIn = FALSE
    /\ cookies = 0
    /\ caller = "none"
    /\ live = FALSE
    /\ loginResult = FALSE
    /\ navResult = "none"
    /\ navError = ""
    /\ calls = 0
    /\ reLogins = 0

\* login() is called by the program.
CallLogin ==
    /\ cpc = "ready"
    /\ calls < MaxCalls
    /\ calls' = calls + 1
    /\ caller' = "main"
    /\ cpc' = "login.goto"
    /\ UNCHANGED <<token, page, thisIsLoggedIn, cookies, live, loginResult,
                   navResult, navError, reLogins>>
    /\ UNCHANGED <<mainVars, sendVars, fmtVars, sleepVars>>

\* login() returns r to its caller.
LoginReturn(r) ==
    /\ loginResult' = r
    /\ cpc' = IF caller = "salesnav" THEN "sn.relogged" ELSE "ready"

\* login(): page.goto of the site's entry; a fault is rethrown to the catch.
LoginGoto ==
    /\ cpc = "login.goto"
    /\ \/ /\ page /= NoPage
          /\ page' \in Pages
          /\ cpc' = "login.cookies"
          /\ UNCHANGED loginResult
       \/ LoginReturn(FALSE) /\ UNCHANGED page
    /\ UNCHANGED <<token, thisIsLoggedIn, cookies, caller, live,
                   navResult, navError, calls, reLogins>>
    /\ UNCHANGED <<mainVars, sendVars, fmtVars, sleepVars>>

\* login(): the test of li_at and the two page.setCookie: k of them are done
\* before a fault (k = 2: no fault).
LoginSetCookies ==
    /\ cpc = "login.cookies"
    /\ IF ~token
       THEN LoginReturn(FALSE) /\ UNCHANGED cookies
       ELSE \E k \in 0..2 :
              /\ cookies' = IF k > cookies THEN k ELSE cookies
              /\ IF k = 2
                 THEN cpc' = "login.reload" /\ UNCHANGED loginResult
                 ELSE LoginReturn(FALSE)
    /\ UNCHANGED <<token, page, thisIsLoggedIn, caller, live,
                   navResult, navError, calls, reLogins>>
    /\ UNCHANGED <<mainVars, sendVars, fmtVars, sleepVars>>

\* login(): page.reload.
LoginReload ==
    /\ cpc = "login.reload"
    /\ \/ /\ page' \in Pages
          /\ cpc' = "login.check"
          /\ UNCHANGED loginResult
       \/ LoginReturn(FALSE) /\ UNCHANGED page
    /\ UNCHANGED <<token, thisIsLoggedIn, cookies, caller, live,
                   navResult, navError, calls, reLogins>>
    /\ UNCHANGED <<mainVars, sendVars, fmtVars, sleepVars>>

\* A variant of LoginCheck that sets this.isLoggedIn before the check.
LoginCheckSetsFlagFirst ==
    /\ cpc = "login.check"
    /\ \E f \in CheckFaults :
         /\ live' = CheckLoginStatus(page.address, page.markers, f)
         /\ thisIsLoggedIn' = TRUE
         /\ LoginReturn(live')
    /\ UNCHANGED <<token, page, cookies, caller, navResult, navError, calls,
                   reLogins>>
    /\ UNCHANGED <<mainVars, sendVars, fmtVars, sleepVars>>

\* login(): the screenshot in its own try, checkLoginStatus() and the test of
\* its result; only then this.isLoggedIn = true.
LoginCheck ==
    /\ cpc = "login.check"
    /\ \E f \in CheckFaults :
         /\ live' = CheckLoginStatus(page.address, page.markers, f)
         /\ IF live'
            THEN thisIsLoggedIn' = TRUE /\ LoginReturn(TRUE)
            ELSE LoginReturn(FALSE) /\ UNCHANGED thisIsLoggedIn
    /\ UNCHANGED <<token, page, cookies, caller, navResult, navError, calls,
                   reLogins>>
    /\ UNCHANGED <<mainVars, sendVars, fmtVars, sleepVars>>

\* The catch of a navigation: { success: false, error: error.message }.
NavFail(msg) ==
    /\ navResult' = "failure"
    /\ navError' = msg
    /\ cpc' = "ready"

\* navigateToProfile(profileUrl) is called by the program.
CallNavigateToProfile ==
    /\ cpc = "ready"
    /\ calls < MaxCalls
    /\ calls' = calls + 1
    /\ navResult' = "none"
    /\ navError' = ""
    /\ cpc' = "np.goto"
    /\ UNCHANGED <<token, page, thisIsLoggedIn, cookies, caller, live,
                   loginResult, reLogins>>
    /\ UNCHANGED <<mainVars, sendVars, fmtVars, sleepVars>>

\* navigateToProfile: the test of this.isLoggedIn, then page.goto(profileUrl).
ProfileGoto ==
    /\ cpc = "np.goto"
    /\ IF ~thisIsLoggedIn
       THEN NavFail("Not logged in to LinkedIn") /\ UNCHANGED page
       ELSE \/ /\ page /= NoPage
               /\ page' \in Pages
               /\ cpc' = "np.captcha"
               /\ UNCHANGED <<navResult, navError>>
            \/ NavFail("Navigation timeout") /\ UNCHANGED page
    /\ UNCHANGED <<token, thisIsLoggedIn, cookies, caller, live, loginResult,
                   calls, reLogins>>
    /\ UNCHANGED <<mainVars, sendVars, fmtVars, sleepVars>>

\* A variant of ProfileCaptcha that goes on to the logged-in check whatever
\* checkForCaptcha() gives.
ProfileCaptchaAfterCheck ==
    /\ cpc = "np.captcha"
    /\ \/ cpc' = "np.check" /\ UNCHANGED <<navResult, navError>>
       \/ NavFail("Evaluation failed")
    /\ UNCHANGED <<token, page, thisIsLoggedIn, cookies, caller, live,
                   loginResult, calls, reLogins>>
    /\ UNCHANGED <<mainVars, sendVars, fmtVars, sleepVars>>

\* navigateToProfile: the screenshot in its own try, then checkForCaptcha(),
\* whose page.evaluate is inside no try of its own.
ProfileCaptcha ==
    /\ cpc = "np.captcha"
    /\ \/ IF CheckForCaptcha(page.captcha)
          THEN NavFail("CAPTCHA detected")
          ELSE cpc' = "np.check" /\ UNCHANGED <<navResult, navError>>
       \/ NavFail("Evaluation failed")
    /\ UNCHANGED <<token, page, thisIsLoggedIn, cookies, caller, live,
                   loginResult, calls, reLogins>>
    /\ UNCHANGED <<mainVars, sendVars, fmtVars, sleepVars>>

\* navigateToProfile: checkLoginStatus() and the test of its result.
ProfileCheck ==
    /\ cpc = "np.check"
    /\ \E f \in CheckFaults :
         /\ live' = CheckLoginStatus(page.address, page.markers, f)
         /\ IF live'
            THEN cpc' = "np.extract" /\ UNCHANGED <<navResult, navError>>
            ELSE NavFail("No longer logged in")
    /\ UNCHANGED <<token, page, thisIsLoggedIn, cookies, caller, loginResult,
                   calls, reLogins>>
    /\ UNCHANGED <<mainVars, sendVars, fmtVars, sleepVars>>

\* navigateToProfile: the profile information is extracted and returned.
ProfileExtract ==
    /\ cpc = "np.extract"
    /\ \/ /\ navResult' = "success"
          /\ cpc' = "ready"
          /\ UNCHANGED navError
       \/ NavFail("Evaluation failed")
    /\ UNCHANGED <<token, page, thisIsLoggedIn, cookies, caller, live,
                   loginResult, calls, reLogins>>
    /\ UNCHANGED <<mainVars, sendVars, fmtVars, sleepVars>>

\* navigateToProfileViaSalesNav(profileUrl, profileData) is called by the program.
CallNavigateViaSalesNav ==
    /\ cpc = "ready"
    /\ calls < MaxCalls
    /\ calls' = calls + 1
    /\ navResult' = "none"
    /\ navError' = ""
    /\ cpc' = "sn.home"
    /\ UNCHANGED <<token, page, thisIsLoggedIn, cookies, caller, live,
                   loginResult, reLogins>>
    /\ UNCHANGED <<mainVars, sendVars, fmtVars, sleepVars>>

\* navigateToProfileViaSalesNav: page.goto of the Sales Navigator home and the
\* screenshot of it, neither inside a try of its own.
SalesNavHome ==
    /\ cpc = "sn.home"
    /\ \/ /\ page /= NoPage
          /\ page' \in Pages
          /\ cpc' = "sn.redirect"
          /\ UNCHANGED <<navResult, navError>>
       \/ /\ page /= NoPage
          /\ page' \in Pages
          /\ NavFail("Screenshot failed")
       \/ NavFail("Navigation timeout") /\ UNCHANGED page
    /\ UNCHANGED <<token, thisIsLoggedIn, cookies, caller, live, loginResult,
                   calls, reLogins>>
    /\ UNCHANGED <<mainVars, sendVars, fmtVars, sleepVars>>

\* navigateToProfileViaSalesNav: on a login or checkpoint address login() is
\* called again.
SalesNavRedirect ==
    /\ cpc = "sn.redirect"
    /\ IF NotAuthenticatedAddress(page.address)
       THEN /\ caller' = "salesnav"
            /\ reLogins' = reLogins + 1
            /\ cpc' = "login.goto"
       ELSE /\ cpc' = "sn.search"
            /\ UNCHANGED <<caller, reLogins>>
    /\ UNCHANGED <<token, page, thisIsLoggedIn, cookies, live, loginResult,
                   navResult, navError, calls>>
    /\ UNCHANGED <<mainVars, sendVars, fmtVars, sleepVars>>

\* navigateToProfileViaSalesNav: `await this.login()` has returned; its value
\* is not read. page.goto of the Sales Navigator home again.
SalesNavHomeAgain ==
    /\ cpc = "sn.relogged"
    /\ \/ /\ page' \in Pages
          /\ cpc' = "sn.search"
          /\ UNCHANGED <<navResult, navError>>
       \/ NavFail("Navigation timeout") /\ UNCHANGED page
    /\ UNCHANGED <<token, thisIsLoggedIn, cookies, caller, live, loginResult,
                   calls, reLogins>>
    /\ UNCHANGED <<mainVars, sendVars, fmtVars, sleepVars>>

\* navigateToProfileViaSalesNav: page.goto of the search page and the
\* screenshot of it.
SalesNavSearch ==
    /\ cpc = "sn.search"
    /\ \/ /\ page' \in Pages
          /\ cpc' = "sn.find"
          /\ UNCHANGED <<navResult, navError>>
       \/ /\ page' \in Pages
          /\ NavFail("Screenshot failed")
       \/ NavFail("Navigation timeout") /\ UNCHANGED page
    /\ UNCHANGED <<token, thisIsLoggedIn, cookies, caller, live, loginResult,
                   calls, reLogins>>
    /\ UNCHANGED <<mainVars, sendVars, fmtVars, sleepVars>>

\* navigateToProfileViaSalesNav: the loop over searchSelectors, the query (typed
\* or by address), the results and the click on a profile link, the
\* screenshot and the extraction.
SalesNavFind ==
    /\ cpc = "sn.find"
    /\ \E s \in SearchSurfaces :
         IF SearchLoop(s, 1).threw
         THEN NavFail("Evaluation failed") /\ UNCHANGED page
         ELSE \/ /\ page' \in Pages
                 /\ navResult' = "success"
                 /\ cpc' = "ready"
                 /\ UNCHANGED navError
              \/ /\ page' \in Pages
                 /\ NavFail("Could not find any profile in Sales Navigator search results")
              \/ /\ page' \in Pages
                 /\ NavFail("Evaluation failed")
    /\ UNCHANGED <<token, thisIsLoggedIn, cookies, caller, live, loginResult,
                   calls, reLogins>>
    /\ UNCHANGED <<mainVars, sendVars, fmtVars, sleepVars>>

\* A variant of CloseClient that leaves this.isLoggedIn as it was.
CloseClientKeepsFlag ==
    /\ cpc = "ready"
    /\ calls < MaxCalls
    /\ calls' = calls + 1
    /\ page /= NoPage
    /\ page' = NoPage
    /\ cookies' = 0
    /\ UNCHANGED <<cpc, token, thisIsLoggedIn, caller, live, loginResult,
                   navResult, navError, reLogins>>
    /\ UNCHANGED <<mainVars, sendVars, fmtVars, sleepVars>>

\* close() is called by the program: with a browser, browser.close() is
\* awaited, then browser and page become null and isLoggedIn false; when
\* browser.close() rejects the fields stay. Without a browser nothing is done.
CloseClient ==
    /\ cpc = "ready"
    /\ calls < MaxCalls
    /\ calls' = calls + 1
    /\ IF page = NoPage
       THEN UNCHANGED <<page, thisIsLoggedIn, cookies>>
       ELSE \/ /\ page' = NoPage
               /\ thisIsLoggedIn' = FALSE
               /\ cookies' = 0
            \/ UNCHANGED <<page, thisIsLoggedIn, cookies>>
    /\ UNCHANGED <<cpc, token, caller, live, loginResult, navResult, navError,
                   reLogins>>
    /\ UNCHANGED <<mainVars, sendVars, fmtVars, sleepVars>>

SessionNext ==
    \/ CallLogin
    \/ LoginGoto
    \/ LoginSetCookies
    \/ LoginReload
    \/ LoginCheck
    \/ CallNavigateToProfile
    \/ ProfileGoto
    \/ ProfileCaptcha
    \/ ProfileCheck
    \/ ProfileExtract
    \/ CallNavigateViaSalesNav
    \/ SalesNavHome
    \/ SalesNavRedirect
    \/ SalesNavHomeAgain
    \/ SalesNavSearch
    \/ SalesNavFind
    \/ CloseClient

InitSession == MainIdle /\ SendIdle /\ FmtIdle /\ SessionInit /\ SleepIdle

NextSession == SessionNext

SpecSession == InitSession /\ [][NextSession]_vars

-----------------------------------------------------------------------------
(* randomSleep() *)

\* The values Math.random() can give are the draw / Draws with draw in
\* 0..Draws - 1: all of them in [0, 1), fine enough for every width of
\* the model's arguments.
Draws == 2 * (2 * MaxDelay + 1)

Delays == (0 - MaxDelay)..MaxDelay

\* Math.floor(x) of the rational x = a / b, b > 0.
Floor(a, b) == a \div b

\* A variant of RandomDelay without the + 1 of the width.
RandomDelayOpenEnd(lo, hi, r) == Floor(r * (hi - lo), Draws) + lo

\* Math.floor(Math.random() * (max - min + 1)) + min, for Math.random() = r / Draws.
RandomDelay(lo, hi, r) == Floor(r * (hi - lo + 1), Draws) + lo

\* setTimeout(resolve, delay): a delay below 1 is run as 1.
TimerDelay(d) == IF d < 1 THEN 1 ELSE d

SleepInit ==
    /\ rpc = "call"
    /\ min \in Delays
    /\ max \in { m \in Delays : min <= m }
    /\ draw = 0
    /\ delay = 0
    /\ waited = 0

\* randomSleep(min, max): the delay is drawn and the timer is set.
RandomSleep ==
    /\ rpc = "call"
    /\ \E r \in 0..(Draws - 1) :
          /\ draw' = r
          /\ delay' = RandomDelay(min, max, r)
    /\ rpc' = "timer"
    /\ UNCHANGED <<min, max, waited>>
    /\ UNCHANGED <<mainVars, sendVars, fmtVars, sessionVars>>

\* The timer fires and calls resolve.
TimerFires ==
    /\ rpc = "timer"
    /\ waited' = TimerDelay(delay)
    /\ rpc' = "resolved"
    /\ UNCHANGED <<min, max, draw, delay>>
    /\ UNCHANGED <<mainVars, sendVars, fmtVars, sessionVars>>

SleepNext == RandomSleep \/ TimerFires

InitSleep == MainIdle /\ SendIdle /\ FmtIdle /\ SessionIdle /\ SleepInit

NextSleep == SleepNext

\* The timers of the event loop fire.
SpecSleep == InitSleep /\ [][NextSleep]_vars /\ WF_vars(TimerFires)

-----------------------------------------------------------------------------
(* Properties of the run of main() *)

\* The records this run appended to the ledger.
ThisRun == SelectSeq(ledger, LAMBDA r : r.ts = 1)

\* The records of this run for profile k.
RecordsOf(k) == SelectSeq(ThisRun, LAMBDA r : r.url = k)

SuccessRecords == SelectSeq(ThisRun, LAMBDA r : r.status = "success")

\* The number of profiles whose processing has ended.
Finished == IF pc = "pause" THEN i + 1 ELSE i

\* The positions of main() inside the loop body.
BodyPcs == {"goto", "shot1", "msgBtn", "shot2", "input", "type", "shot3", "send",
            "shot4", "logSuccess", "logNoSend", "logNoInput", "logNoBtn",
            "pause", "catch"}

\* The reason logged by the not-found branch at position p.
NotFoundReason(p) ==
    CASE p = "logNoBtn" -> "Could not find message button"
      [] p = "logNoInput" -> "Could not find message input"
      [] p = "logNoSend" -> "Could not find send button"

\* C1: for every cap >= 0 the number of successful sends never exceeds cap, and
\* once messagesSent equals cap no further profile is started.
C1_CapNeverExceeded ==
    /\ [](cap >= 0 /\ messagesSent <= cap)
    /\ [][messagesSent >= cap => started' = started]_vars

\* A run with cap = 2 that ended after the second success with a profile left.
C1_Witness ==
    /\ pc = "exit" /\ exitCode = 0
    /\ cap = 2 /\ messagesSent = 2
    /\ n = 3 /\ i = 2 /\ started = {0, 1}

\* C2: a challenge marker on the page reached by navigating to a profile aborts
\* the run: no later profile is started, the challenged profile gets no
\* ledger record, and the run does not end with the normal exit.
C2_ChallengeAbortsRun ==
    challengedAt /= -1 =>
        /\ \A k \in started : k <= challengedAt
        /\ RecordsOf(challengedAt) = << >>
        /\ pc = "exit" => exitCode /= 0

\* What a not-found branch must do.
NotFoundStep ==
    /\ lastCall' = Record(i, "failed", NotFoundReason(pc))
    /\ ledger' \in {ledger, Append(ledger, lastCall')}
    /\ messagesFailed' = messagesFailed + 1
    /\ messagesSent' = messagesSent
    /\ pc' = "pause" /\ exitCode' = -1 /\ i' = i

\* C3: in each not-found branch the outcome is failed with the reason naming
\* the missing element, messagesFailed grows by one, messagesSent is
\* unchanged and the run goes on to the next profile.
C3_NotFoundIsolated ==
    [][(pc \in {"logNoBtn", "logNoInput", "logNoSend"}) => NotFoundStep]_vars

\* After a missing message input for the first profile, the second is started.
C3_Witness ==
    /\ pc = "shot1" /\ i = 1
    /\ lastCall = Record(0, "failed", "Could not find message input")
    /\ messagesFailed = 1 /\ messagesSent = 0

\* What the catch block must do.
CaughtStep ==
    /\ fault /= "none"
    /\ lastCall' = [url |-> i, ts |-> 1, status |-> "failed",
                    error |-> ErrorText(fault)]
    /\ lastCall'.error /= "Error: "
    /\ ledger' \in {ledger, Append(ledger, lastCall')}
    /\ messagesFailed' = messagesFailed + 1
    /\ messagesSent' = messagesSent
    /\ i' = i + 1 /\ pc' = "loop"

\* C4: a fault of any step of one profile is caught by the loop body: the
\* outcome is failed with the fault's message, messagesFailed grows by one,
\* and the loop goes on with the next profile; no step inside the loop body
\* ends the run.
C4_FaultIsolated ==
    /\ [][pc = "catch" => CaughtStep]_vars
    /\ [][(pc \in BodyPcs) => (pc' \in BodyPcs \cup {"loop"} /\ exitCode' = -1)]_vars
    /\ [][(fault' /= fault /\ fault = "none") => pc' = "catch"]_vars

\* After a navigation timeout for the first profile, the second is started.
C4_Witness ==
    /\ pc = "shot1" /\ i = 1
    /\ lastCall = Record(0, "failed", "Error: Navigation timeout")
    /\ messagesFailed = 1

SuccessStep ==
    /\ messagesSent' = messagesSent + 1
    /\ messagesFailed' = messagesFailed
    /\ \/ ledger' = Append(ledger, Record(i, "success", ""))
          /\ lostWrites' = lostWrites
       \/ ledger' = ledger /\ lostWrites' = lostWrites + 1

C7_AppendOnly ==
    [][Len(ledger') >= Len(ledger) /\ SubSeq(ledger', 1, Len(ledger)) = ledger]_vars

\* The file of an earlier run, followed by two records of this run.
C7_Witness ==
    /\ Len(ledger) = 4
    /\ SubSeq(ledger, 1, 2) = PriorRecords
    /\ ledger[3].ts = 1 /\ ledger[4].ts = 1

-----------------------------------------------------------------------------
(* Properties of the candidate lists *)

HasMatch(surf, dom) == \E k \in dom : surf[k] = "match"

HasThrow(surf, dom) == \E k \in dom : surf[k] = "throw"

\* The first candidate, in the order of the list, that the page matches.
LeastMatch(surf, dom) ==
    CHOOSE k \in dom : surf[k] = "match" /\ \A j \in dom : j < k => surf[j] /= "match"

MethodIndices == 0..(NumMessagingMethods - 1)
InputIndices == 1..NumInputSelectors
SendIndices == 1..NumSendSelectors
SearchIndices == 1..NumSearchSelectors

\* C8: what a list resolves to is the first candidate, in configured order,
\* that matches the page, and so is a function of the page alone: for the
\* input selectors, the send selectors, the search selectors and the
\* messaging methods (for the two lists without a try, when no candidate throws).
C8_FirstMatchWins ==
    /\ spc \in {"type", "lastResort"} =>
          /\ foundInput <=> HasMatch(surface, InputIndices)
          /\ foundInput => selector = LeastMatch(surface, InputIndices)
          /\ ~foundInput => selector = 0
    /\ spc \in {"confirm", "sendFallback", "sendDialog"} =>
          /\ sendUsed /= 0 <=> HasMatch(surface, SendIndices)
          /\ sendUsed /= 0 => sendButtonClicked /\ sendUsed = LeastMatch(surface, SendIndices)
    /\ spc = "afterMethods" =>
          /\ messageButtonClicked => methodUsed = LeastMatch(surface, MethodIndices)
          /\ ~HasThrow(surface, MethodIndices) =>
                (messageButtonClicked <=> HasMatch(surface, MethodIndices))
    /\ spc = "afterSearch" =>
          /\ searchInput /= 0 => searchInput = LeastMatch(surface, SearchIndices)
          /\ ~HasThrow(surface, SearchIndices) =>
                (searchInput /= 0 <=> HasMatch(surface, SearchIndices))

\* Two input selectors match the page and the earlier one is kept.
C8_Witness ==
    /\ spc = "type"
    /\ surface[1] = "match" /\ surface[3] = "match"
    /\ foundInput /\ selector = 1

\* C9: a candidate whose evaluation throws counts as a miss and the next one
\* is tried, in every list: whenever some candidate of the list matches the
\* page, the first matching one is used, whatever the others throw.
C9_ThrowingCandidateSkipped ==
    /\ spc \in {"type", "lastResort"} /\ HasMatch(surface, InputIndices) =>
          foundInput /\ selector = LeastMatch(surface, InputIndices)
    /\ /\ spc \in {"afterMethods", "done"}
       /\ DOMAIN surface = MethodIndices
       /\ HasMatch(surface, MethodIndices)
       => messageButtonClicked /\ methodUsed = LeastMatch(surface, MethodIndices)

-----------------------------------------------------------------------------
(* Properties of formatMessage *)

\* The text sub occurs in the text str.
Occurs(sub, str) ==
    \E pos \in 1..Len(str) :
        /\ pos + Len(sub) - 1 <= Len(str)
        /\ SubSeq(str, pos, pos + Len(sub) - 1) = sub

\* The placeholder {{name}} as it is written in a template.
Placeholder(name) == <<"{", "{">> \o name \o <<"}", "}">>

\* C10: when no attribute name of the profile occurs as a {{name}}
\* placeholder in the template, formatMessage returns the template unchanged.
C10_NoPlaceholderUnchanged ==
    /\ fpc = "out"
    /\ \A k \in 1..Len(profile) : ~Occurs(Placeholder(profile[k][1]), template)
    => message = template

\* The characters a placeholder name is written with: any but the braces.
NameChars == {"a", "b", ".", "$", "&"}

\* {{name}} with a non-empty name begins at position pos of str and its name
\* is len characters long.
PlaceholderAt(str, pos, len) ==
    /\ len >= 1
    /\ pos >= 1
    /\ pos + len + 3 <= Len(str)
    /\ str[pos] = "{" /\ str[pos + 1] = "{"
    /\ \A j \in 1..len : str[pos + 1 + j] \in NameChars
    /\ str[pos + len + 2] = "}" /\ str[pos + len + 3] = "}"

\* The names of the placeholders written in str.
PlaceholderNames(str) ==
    { SubSeq(str, pos + 2, pos + 1 + len) :
        <<pos, len>> \in { pl \in (1..Len(str)) \X (1..Len(str)) :
                              PlaceholderAt(str, pl[1], pl[2]) } }

\* The attribute names of a profile.
KeysOf(prof) == { prof[k][1] : k \in 1..Len(prof) }

\* C11: when every placeholder of the template has an attribute of its name in
\* the profile, the message formatMessage returns holds no placeholder
\* syntax, whatever the values are (placeholder-shaped or empty ones too).
C11_TotalSubstitution ==
    /\ fpc = "out"
    /\ PlaceholderNames(template) \subseteq KeysOf(profile)
    => PlaceholderNames(message) = {}

\* C12: a placeholder of the template whose name is no attribute of the
\* profile is replaced by the empty text: it is not left in the message.
C12_AbsentAttributeGivesEmpty ==
    fpc = "out" =>
        \A name \in PlaceholderNames(template) \ KeysOf(profile) :
            ~Occurs(Placeholder(name), message)

\* C13: the substitution is one pass over the template: text that a value
\* brings in is not substituted again, so the message is the same when the
\* attributes of the profile are taken in the other order.
C13_OrderIndependent ==
    (fpc = "out" /\ Len(profile) = 2)
        => message = FormatMessage(template, <<profile[2], profile[1]>>)

-----------------------------------------------------------------------------
(* Properties of the start of main() *)

-----------------------------------------------------------------------------
(* Properties of the session operations *)

\* The positions inside login().
LoginPcs == {"login.goto", "login.cookies", "login.reload", "login.check"}

\* A step of login(), as C15 has it.
LoginStep ==
    /\ (cpc' \notin LoginPcs /\ loginResult' = TRUE) =>
           /\ token
           /\ cookies' = 2
           /\ cpc = "login.check" /\ live' = TRUE
           /\ thisIsLoggedIn'
    /\ thisIsLoggedIn' /= thisIsLoggedIn =>
           /\ thisIsLoggedIn'
           /\ cpc = "login.check" /\ live' = TRUE
           /\ cpc' \notin LoginPcs /\ loginResult' = TRUE
    /\ ~token => (cookies' = 0 /\ cpc' \notin {"login.reload", "login.check"})
    /\ (~token /\ cpc = "login.cookies") =>
           (cpc' \notin LoginPcs /\ loginResult' = FALSE /\ cookies' = 0)
    /\ (cpc = "login.check" /\ live' = FALSE) =>
           /\ cpc' \notin LoginPcs /\ loginResult' = FALSE
           /\ thisIsLoggedIn' = thisIsLoggedIn

\* C15: login() returns true, and sets this.isLoggedIn, only with the token
\* present and after the check that follows the cookies and the reload gave
\* true; without the token no cookie is set and login() returns false; when
\* the check gives false login() returns false and leaves this.isLoggedIn.
C15_LoginOnlyWhenLive == [][(cpc \in LoginPcs) => LoginStep]_vars

\* login() has returned true on its first call.
C15_Witness ==
    /\ cpc = "ready"
    /\ calls = 1
    /\ loginResult = TRUE
    /\ thisIsLoggedIn
    /\ live = TRUE
    /\ cookies = 2

\* A step that calls checkLoginStatus(), as C16 has it: the value is a
\* boolean, false on a login or checkpoint address, and the caller goes on
\* by that value alone (no fault of the check reaches the caller's catch).
CheckStep ==
    /\ live' \in BOOLEAN
    /\ NotAuthenticatedAddress(page.address) => live' = FALSE
    /\ page' = page
    /\ cpc = "login.check" => loginResult' = live'
    /\ cpc = "np.check" =>
           IF live' THEN cpc' = "np.extract" /\ navResult' = "none"
           ELSE navResult' = "failure" /\ navError' = "No longer logged in"

\* C16: checkLoginStatus() always returns a boolean and never throws, and it
\* returns false on a login or checkpoint address whatever markers the page
\* holds.
C16_CheckNeverThrows == [][(cpc \in {"login.check", "np.check"}) => CheckStep]_vars

\* checkLoginStatus() gave false on a login address that holds a logged-in marker.
C16_Witness ==
    /\ cpc = "ready"
    /\ navError = "No longer logged in"
    /\ live = FALSE
    /\ page.markers
    /\ NotAuthenticatedAddress(page.address)

\* C17: on one client, navigateToProfileViaSalesNav calls login() again at
\* most once, however many of its calls find a login or checkpoint address.
C17_ReLoginAtMostOnce == reLogins <= 1

\* The login() called by navigateToProfileViaSalesNav has returned false.
ReLoginFailed == caller = "salesnav" /\ loginResult = FALSE /\ cpc \notin LoginPcs

\* C18: when the login() called again after a lost session returns false,
\* no further navigation is made for the profile (the call ends as it is)
\* and no later profile is processed.
C18_FailedReLoginIsFatal ==
    [][ReLoginFailed => (page' = page /\ calls' = calls /\ cpc' = "ready")]_vars

\* C19: when navigateToProfile finds no challenge marker and the logged-in
\* check gives false, login() is called again before the profile is given up.
C19_ReLoginBeforeSessionLost ==
    [][(cpc = "np.check" /\ live' = FALSE) => (cpc' = "login.goto" /\ navResult' = "none")]_vars

-----------------------------------------------------------------------------
(* Properties of the end of sendMessage *)

\* C20: once the send button was clicked without a fault, sendMessage
\* returns a success whether the confirmation was found, was not found, or
\* the look for it threw (the last resort clicks and returns without a look).
C20_SuccessWithoutConfirmation ==
    (spc = "done" /\ sendButtonClicked) =>
        (result = "success" /\ (foundInput => confirmation \in Outcomes))

\* The look for a confirmation threw after the send button was clicked.
C20_Witness ==
    /\ spc = "done"
    /\ sendButtonClicked
    /\ sendUsed > 0
    /\ confirmation = "throw"
    /\ result = "success"

-----------------------------------------------------------------------------
(* Properties of the snapshots, the order and the end of the run *)

\* The positions of main() that write a snapshot of the page.
SnapshotPcs == {"shot1", "shot2", "shot3", "shot4"}

\* What follows a snapshot, and a snapshot's fault, as C21 has it.
SnapshotStep ==
    /\ (pc \in SnapshotPcs \cup {"home"}) =>
           (exitCode' = -1 /\ browserOpen' /\ pc' /= "exit")
    /\ pc = "home" => pc' = "loop"
    /\ (pc = "catch" /\ fault = "Screenshot failed") =>
           (pc' = "loop" /\ i' = i + 1 /\ exitCode' = -1 /\ browserOpen')

\* C21: a snapshot that cannot be written never ends the run: the visit of
\* the home goes on to the loop, a snapshot of the loop body goes on or is
\* caught, and the loop then goes on with the next profile.
C21_SnapshotFaultNeverAborts == [][SnapshotStep]_vars

\* After the first profile's snapshot failed the second profile is started.
C21_Witness ==
    /\ pc = "shot1" /\ i = 1
    /\ started = {0, 1}
    /\ lastCall = Record(0, "failed", "Error: Screenshot failed")

\* C22: a snapshot that cannot be written never changes the outcome of a
\* profile: no profile is handed to the catch block, or recorded as failed,
\* for a snapshot.
C22_SnapshotFaultKeepsOutcome ==
    /\ pc = "catch" => fault /= "Screenshot failed"
    /\ lastCall.error /= "Error: Screenshot failed"

\* The profiles below k.
Before(k) == { j \in 0..MaxProfiles + 1 : j < k }

StartStep ==
    started' /= started =>
        /\ pc = "goto"
        /\ i \notin started
        /\ started' = started \cup {i}

C24_RecordsWrittenBeforeAbort ==
    /\ [](/\ Len(ThisRun) + lostWrites = messagesSent + messagesFailed
          /\ pc = "goto" => Len(ThisRun) + lostWrites = i
          /\ lastCall /= NoCall /\ lostWrites = 0 =>
                 ThisRun[Len(ThisRun)] = lastCall)
    /\ [][pc' = "exit" => ledger' = ledger]_vars

\* The run ended by the fault of client.close() after two records were written.
C24_Witness ==
    /\ pc = "exit" /\ exitCode = 1 /\ exitedAt = "close"
    /\ Len(ThisRun) = 2 /\ lostWrites = 0
    /\ messagesSent + messagesFailed = 2

\* C25: once initialize() has given a browser, the process never exits
\* while the browser is open.
C25_BrowserClosedAtExit ==
    (pc = "exit" /\ exitedAt /= "initialize") => ~browserOpen

\* The steps of t are among the steps of the protocol, each at most once and
\* in the order of the protocol.
InProtocolOrder(t) ==
    \E k \in 0..4 : t = SubSeq(<<"button", "fill", "type", "send">>, 1, k)

Did(step) == \E k \in 1..Len(trail) : trail[k] = step

\* C27: on the page of one profile the steps are done only in the order
\* message button, input, send button: the send button is not clicked unless
\* the input was filled, the input is not filled unless the message button
\* was clicked, and a success is not recorded unless the send button was
\* clicked.
C27_ProtocolOrder ==
    /\ [](/\ InProtocolOrder(trail)
          /\ Did("send") => Did("fill")
          /\ Did("fill") => Did("button")
          /\ trail /= << >> => i \in started
          /\ (pc = "pause" /\ lastCall.status = "success") => Did("send")
          /\ pc = "logSuccess" => Did("send"))
    /\ [][(lastCall' /= lastCall /\ lastCall'.status = "success") => Did("send")]_vars

\* A success recorded after the three steps.
C27_Witness ==
    /\ pc = "pause"
    /\ lastCall = Record(0, "success", "")
    /\ trail = <<"button", "fill", "type", "send">>

\* What the message input can hold before it is filled.
InitialContents == { << >>, <<"draft">> }

\* C29: when the send button is clicked the input holds the message exactly
\* once, whatever it held before.
C29_FieldHoldsMessageOnce ==
    Did("send") =>
        \A initial \in InitialContents : FieldContent(initial, trail) = <<"message">>

\* More than the number of positions of one turn of the loop.
BodyLen == Cardinality(BodyPcs) + 1

Measure ==
    CASE pc = "initialize" -> BodyLen * (MaxProfiles + 2) + 3
      [] pc = "login" -> BodyLen * (MaxProfiles + 2) + 2
      [] pc = "load" -> BodyLen * (MaxProfiles + 2) + 1
      [] pc = "home" -> BodyLen * (n + 1)
      [] pc = "loop" -> BodyLen * (n - i) + 15
      [] pc = "goto" -> BodyLen * (n - i) + 14
      [] pc = "shot1" -> BodyLen * (n - i) + 13
      [] pc = "msgBtn" -> BodyLen * (n - i) + 12
      [] pc = "shot2" -> BodyLen * (n - i) + 11
      [] pc = "input" -> BodyLen * (n - i) + 10
      [] pc = "type" -> BodyLen * (n - i) + 9
      [] pc = "shot3" -> BodyLen * (n - i) + 8
      [] pc = "send" -> BodyLen * (n - i) + 7
      [] pc = "shot4" -> BodyLen * (n - i) + 6
      [] pc \in {"logSuccess", "logNoSend", "logNoInput", "logNoBtn"} ->
             BodyLen * (n - i) + 5
      [] pc = "pause" -> BodyLen * (n - i) + 4
      [] pc = "catch" -> BodyLen * (n - i) + 3
      [] pc = "close" -> 1
      [] OTHER -> 0

\* A step of main(), as C30 has it.
ProgressStep ==
    /\ Measure' < Measure
    /\ i' >= i
    /\ pc \in {"pause", "catch"} => i' = i + 1
    /\ pc' = "goto" => i' \notin started'

\* C30: the run terminates (every step brings it nearer to its end, and a
\* step can be taken wherever the run has not ended), each
\* profile is processed at most once, the loop index only grows, and a run
\* that ends normally has processed every profile or has sent cap messages;
\* with fewer than cap messages sent every profile was processed.
C30_RunTerminates ==
    /\ [][ProgressStep]_vars
    /\ [](/\ Measure >= 0
          /\ pc /= "exit" => ENABLED MainNext
          /\ i <= n
          /\ (pc = "exit" /\ exitCode = 0) =>
                /\ i = n \/ messagesSent = cap
                /\ started = Before(i)
                /\ messagesSent + messagesFailed = i
                /\ messagesSent < cap => i = n)

\* A normal end with two failures and one message sent, below the cap.
C30_Witness ==
    /\ pc = "exit" /\ exitCode = 0
    /\ n = 3 /\ i = 3 /\ cap = 2
    /\ messagesSent = 1 /\ messagesFailed = 2

\* A step of login() entered with the session established and verified live,
\* as C26 has it.
LoginWhenLiveStep ==
    (cpc = "login.goto" /\ thisIsLoggedIn /\ live) =>
        /\ cpc' \notin LoginPcs
        /\ loginResult' = TRUE
        /\ page' = page
        /\ cookies' = cookies

\* C26: login() called with the session established and verified live
\* returns true at once: no page.goto of the entry, no setCookie, no reload,
\* and the page stays on its address.
C26_LoginReturnsAtOnceWhenLive == [][LoginWhenLiveStep]_vars

\* C28: in sendMessage, when no input selector matches the page, the result
\* is a failure, nothing was typed and no send button was clicked.
C28_NoInputMeansFailure ==
    (/\ spc = "done"
     /\ messageButtonClicked
     /\ DOMAIN surface = InputIndices
     /\ ~HasMatch(surface, InputIndices)) =>
        /\ result = "failure"
        /\ ~typed
        /\ ~sendButtonClicked

-----------------------------------------------------------------------------
(* Properties of the pauses *)

\* The positions of main() whose randomSleep is the pause between two profiles.
BetweenPcs == {"pause", "catch"}

\* The step that ends a profile, as C31 has it.
EndOfProfileStep ==
    i' /= i =>
        /\ pc \in BetweenPcs
        /\ slept'.at = pc
        /\ slept'.min >= intraUpper'

\* C31: after every processed profile, whatever its outcome, a randomSleep
\* is awaited before the next profile is started, and its lower bound is at
\* least the upper bound of every randomSleep awaited between the steps on a
\* profile in the same loop.
C31_PauseBetweenProfiles ==
    /\ [][EndOfProfileStep]_vars
    /\ [](/\ (pc \in {"loop", "goto"} /\ i > 0) =>
                 (slept.at \in BetweenPcs /\ slept.min >= intraUpper)
          /\ slept.at \in BetweenPcs => slept.min >= intraUpper
          /\ slept.min <= slept.max)

\* The second profile is about to start after the pause of the catch block,
\* and an earlier step had slept up to that pause's lower bound.
C31_Witness ==
    /\ pc = "goto" /\ i = 2
    /\ slept.at = "catch"
    /\ slept.min = intraUpper
    /\ lastCall.status = "failed"
    /\ messagesSent = 1

\* C32: for min <= max the delay randomSleep chooses is an integer of
\* min..max for every value of Math.random(), min and max are both chosen
\* for some value, and the promise returned is resolved.
C32_DelayWithinBounds ==
    /\ [](/\ rpc /= "call" => delay \in min..max
          /\ rpc = "call" =>
                /\ \E r \in 0..(Draws - 1) : RandomDelay(min, max, r) = min
                /\ \E r \in 0..(Draws - 1) : RandomDelay(min, max, r) = max
          /\ rpc = "timer" => ENABLED TimerFires
          /\ rpc = "resolved" => waited >= 1)
    /\ (rpc = "timer" ~> rpc = "resolved")

\* The largest draw gave the upper bound of the widest interval and the
\* promise was resolved.
C32_Witness ==
    /\ rpc = "resolved"
    /\ min = 0 - MaxDelay /\ max = MaxDelay
    /\ draw = Draws - 1
    /\ delay = max

-----------------------------------------------------------------------------
(* Properties of navigateToProfile *)

\* The positions of navigateToProfile after its page.goto.
ProfilePcs == {"np.captcha", "np.check", "np.extract"}

\* A step of navigateToProfile after its page.goto, as C33 has it.
ProfileOrderStep ==
    /\ (cpc = "np.captcha" /\ page.captcha) =>
          /\ cpc' = "ready"
          /\ navResult' = "failure"
          /\ navError' \in {"CAPTCHA detected", "Evaluation failed"}
          /\ live' = live
    /\ cpc' = "np.check" => (cpc = "np.captcha" /\ ~page.captcha)
    /\ cpc' = "np.extract" => (cpc = "np.check" /\ ~page.captcha /\ live')
    /\ (cpc \in ProfilePcs /\ navResult' = "success") =>
          (cpc = "np.extract" /\ ~page.captcha /\ live)
    /\ (cpc \in ProfilePcs /\ navError' = "No longer logged in") =>
          (cpc = "np.check" /\ ~page.captcha /\ ~live')
    /\ cpc \in ProfilePcs => page' = page

\* C33: navigateToProfile looks for a challenge before it checks the session
\* and does both before it extracts: with a challenge marker on the page the
\* result is a failure whose reason is the CAPTCHA (or the fault of the look
\* itself), never the lost session, and the profile information is extracted
\* only with no challenge and a live session.
C33_ChallengeBeforeSessionBeforeExtract == [][ProfileOrderStep]_vars

\* A page with a challenge marker and without a logged-in marker gave the
\* CAPTCHA reason.
C33_Witness ==
    /\ cpc = "ready"
    /\ navResult = "failure"
    /\ navError = "CAPTCHA detected"
    /\ page.captcha /\ ~page.markers
    /\ thisIsLoggedIn

-----------------------------------------------------------------------------
(* Properties of the records and the counters *)

\* A record as the ledger should hold it: a success without an error text,
\* or a failure with one.
WellFormed(r) ==
    \/ r.status = "success" /\ r.error = ""
    \/ r.status = "failed" /\ r.error /= ""

\* The record handed to logMessage for a profile whose send button was
\* clicked, as C34 has it.
SentRecordStep ==
    (Did("send") /\ lastCall' /= lastCall) =>
        (lastCall'.status = "success" /\ lastCall'.error = "")

\* C34: every record written for a failed profile is a failure with an error
\* text and every record written for a profile the message was sent to is a
\* success without one; once the processing of a profile has ended with a
\* failure, the ledger ends with the record of that failure.
C34_RecordsMatchOutcome ==
    /\ [](/\ \A k \in 1..Len(ThisRun) : WellFormed(ThisRun[k])
          /\ (pc = "loop" /\ lastCall.status = "failed") =>
                (ThisRun /= << >> /\ ThisRun[Len(ThisRun)] = lastCall))
    /\ [][SentRecordStep]_vars

UncountedPcs == BodyPcs \ {"pause"}

\* A step of the run, as C36 has it.
CounterStep ==
    /\ messagesSent' \in {messagesSent, messagesSent + 1}
    /\ messagesFailed' \in {messagesFailed, messagesFailed + 1}
    /\ ~(messagesSent' /= messagesSent /\ messagesFailed' /= messagesFailed)
    /\ (messagesSent' /= messagesSent \/ messagesFailed' /= messagesFailed) =>
          /\ pc \in UncountedPcs
          /\ messagesSent + messagesFailed = i
          /\ pc' = "pause" \/ i' = i + 1
    /\ i' /= i => messagesSent' + messagesFailed' = i'

\* C36: in every state of the run messagesSent + messagesFailed is the number
\* of profiles whose processing has finished; a step increments at most one
\* of the two counters, by one, and only for the profile being processed,
\* which is then finished: each processed profile is counted exactly once,
\* on the fault path too.
C36_CountersCountFinished ==
    /\ [](/\ messagesSent + messagesFailed = Finished
          /\ messagesSent >= 0 /\ messagesFailed >= 0
          /\ pc \in UncountedPcs => messagesSent + messagesFailed = i)
    /\ [][CounterStep]_vars

\* Three profiles finished: one sent, one not found, one caught fault.
C36_Witness ==
    /\ pc = "loop" /\ i = 3
    /\ messagesSent = 1 /\ messagesFailed = 2
    /\ lastCall = Record(2, "failed", "Error: Typing failed")

-----------------------------------------------------------------------------
(* Properties of the messaging methods *)

\* C37: a messaging method of sendMessage that returned false has clicked
\* nothing: when a later method is tried, or no method matched, no button of
\* the profile page was clicked.
C37_NoClickWithoutMatch == strayClicks = {}

-----------------------------------------------------------------------------
(* Properties of the session flag *)

\* A step of the client, as C38 has it.
AuthenticatedNavigationStep ==
    /\ (cpc = "np.goto" /\ ~thisIsLoggedIn) =>
          /\ page' = page
          /\ cpc' = "ready"
          /\ navResult' = "failure"
          /\ navError' = "Not logged in to LinkedIn"
    /\ (cpc = "np.goto" /\ page' /= page) => thisIsLoggedIn
    /\ (thisIsLoggedIn' /\ ~thisIsLoggedIn) =>
          (cpc = "login.check" /\ loginResult' = TRUE)
    /\ (page' = NoPage /\ page /= NoPage) => ~thisIsLoggedIn'

\* C38: navigateToProfile does its page.goto(profileUrl) only with isLoggedIn
\* true, which only a login() that returns true sets; with isLoggedIn false,
\* as it is after close(), it returns the failure 'Not logged in to LinkedIn'
\* and the page is left as it was.
C38_NavigationOnlyWhenAuthenticated ==
    /\ [][AuthenticatedNavigationStep]_vars
    /\ [](/\ page = NoPage => ~thisIsLoggedIn
          /\ cpc \in ProfilePcs => thisIsLoggedIn)

\* login() returned true, close() was called, and navigateToProfile then
\* refused to navigate.
C38_Witness ==
    /\ cpc = "ready"
    /\ page = NoPage
    /\ loginResult = TRUE
    /\ ~thisIsLoggedIn
    /\ navResult = "failure"
    /\ navError = "Not logged in to LinkedIn"

\* C39: between two calls isLoggedIn is true only if the login() that
\* returned last returned true.
C39_FlagFollowsLastLogin ==
    (cpc \notin LoginPcs /\ thisIsLoggedIn) => loginResult = TRUE

====
